---- MODULE Spec2Model ----
(***************************************************************************)
(* Model of the code generated by the two derive macros of                 *)
(* src/derive/src/lib.rs:                                                  *)
(*   RelayGlobalID  - impl From<&ID> for String   (the global id encoder)  *)
(*   RelayNodeEnum  - enum SchemaNodeTypes and Node::get (the dispatcher)  *)
(*                                                                         *)
(* A Rust String is modelled as the sequence of its UTF-8 bytes.  An ASCII *)
(* byte is written as the one-character string of its character; the two   *)
(* bytes of a two-byte character are written Lead and Cont.  Lengths and   *)
(* indices are byte lengths and byte offsets, as in Rust.                  *)
(***************************************************************************)
EXTENDS Integers, Sequences, FiniteSets

VARIABLES
    variants,   \* the enum's variant identifiers, in declaration order
    phase,      \* "idle" | "awaiting" (get suspended in a loader) | "done"
    last,       \* what happened last: "none" | "build" | "from" | "get"
    arg,        \* its argument
    locals,     \* the locals (id, node_type) of get after the split
    calls,      \* the loader invocations made by the current get
    ret         \* how the call ended

vars == <<variants, phase, last, arg, locals, calls, ret>>

----------------------------------------------------------------------------
(* Bounds of the model *)

\* largest number of enum variants
MaxTypes == 11
\* longest crafted remainder after the 32-byte prefix of a relay id
MaxRem == 2
\* longest text appended to a UUID to form an over-long local id
MaxExtra == 2

----------------------------------------------------------------------------
(* Strings *)

Lead == "C3"
Cont == "A9"

Digits == <<"0", "1", "2", "3", "4", "5", "6", "7", "8", "9">>

\* usize/u32 Display: minimal decimal digits
RECURSIVE ToString(_)
ToString(n) ==
    IF n < 10 THEN <<Digits[n + 1]>>
    ELSE ToString(n \div 10) \o <<Digits[(n % 10) + 1]>>

\* str::is_char_boundary
IsCharBoundary(s, idx) ==
    \/ idx = 0
    \/ idx = Len(s)
    \/ idx < Len(s) /\ s[idx + 1] # Cont

\* char::len_utf8 of the character starting at byte idx
LenUtf8At(s, idx) == IF s[idx + 1] = Lead THEN 2 ELSE 1

StrOk(s) == [ok |-> TRUE, val |-> s, line |-> 0]
StrPanic(line) == [ok |-> FALSE, val |-> <<>>, line |-> line]

\* String::remove(idx), called at source line `line`; panics when idx is
\* not the start of a character of s
Remove(s, idx, line) ==
    IF idx < Len(s) /\ IsCharBoundary(s, idx)
    THEN StrOk(SubSeq(s, 1, idx) \o SubSeq(s, idx + 1 + LenUtf8At(s, idx), Len(s)))
    ELSE StrPanic(line)

\* String::insert(idx, ch), called at source line `line`; panics when idx
\* is not a character boundary of s
Insert(s, idx, ch, line) ==
    IF idx <= Len(s) /\ IsCharBoundary(s, idx)
    THEN StrOk(SubSeq(s, 1, idx) \o <<ch>> \o SubSeq(s, idx + 1, Len(s)))
    ELSE StrPanic(line)

\* str::split_at(mid); panics when mid is past the end or inside a character
SplitAt(s, mid, line) ==
    IF mid <= Len(s) /\ IsCharBoundary(s, mid)
    THEN [ok |-> TRUE, head |-> SubSeq(s, 1, mid),
          tail |-> SubSeq(s, mid + 1, Len(s)), line |-> 0]
    ELSE [ok |-> FALSE, head |-> <<>>, tail |-> <<>>, line |-> line]

----------------------------------------------------------------------------
(* enum SchemaNodeTypes *)

Unknown == 0

Idents == 1 .. MaxTypes

\* position of variant v in the declaration list (1-based), 0 if absent
Position(vs, v) ==
    IF \E i \in 1 .. Len(vs) : vs[i] = v
    THEN CHOOSE i \in 1 .. Len(vs) : vs[i] = v
    ELSE 0

\* `Unknown = 0` and then the variants with the implicit discriminants
\* 1, 2, ...; this is the value of `id.1.clone() as u32`
Discriminant(vs, node) ==
    IF node = Unknown THEN 0 ELSE Position(vs, node)

SchemaNodeTypes(vs) == {Unknown} \cup {vs[i] : i \in 1 .. Len(vs)}

\* faulty variant: the literals numbered from 0, as if `Unknown` had an arm
VariantNodeType_zero(v) == ToString(v)

\* variant_node_type: the match literal of the variant at 0-based position v
VariantNodeType(v) == ToString(v + 1)

----------------------------------------------------------------------------
(* impl From<&ID> for String *)

\* faulty variant: the length check off by one
TooShortUuid_35(uuid) == Len(uuid) < 35

\* the guard of the panic at line 36
TooShortUuid(uuid) == Len(uuid) < 36

\* faulty variant: the hyphens' offsets in the 36-byte form, not adjusted
\* for the bytes already removed
RemoveHyphens_unshifted(uuid) ==
    LET r1 == Remove(uuid, 8, 38)
        r2 == IF r1.ok THEN Remove(r1.val, 13, 39) ELSE r1
        r3 == IF r2.ok THEN Remove(r2.val, 18, 40) ELSE r2
    IN  IF r3.ok THEN Remove(r3.val, 23, 41) ELSE r3

\* uuid.remove(8); uuid.remove(12); uuid.remove(16); uuid.remove(20)
RemoveHyphens(uuid) ==
    LET r1 == Remove(uuid, 8, 38)
        r2 == IF r1.ok THEN Remove(r1.val, 12, 39) ELSE r1
        r3 == IF r2.ok THEN Remove(r2.val, 16, 40) ELSE r2
    IN  IF r3.ok THEN Remove(r3.val, 20, 41) ELSE r3

\* String::from(&ID(uuid, node)); status "ok" with the string built by
\* format!, or "panic" with the source line that panicked
From(vs, id) ==
    LET node_type == Discriminant(vs, id.node)
        uuid == id.uuid
    IN  IF TooShortUuid(uuid)
        THEN [status |-> "panic", line |-> 36, val |-> <<>>]
        ELSE LET r == RemoveHyphens(uuid)
             IN  IF r.ok
                 THEN [status |-> "ok", line |-> 0,
                       val |-> r.val \o ToString(node_type)]
                 ELSE [status |-> "panic", line |-> r.line, val |-> <<>>]

----------------------------------------------------------------------------
(* Node::get *)

NoneNode == [some |-> FALSE, variant |-> Unknown, id |-> <<>>]
SomeNode(v, id) == [some |-> TRUE, variant |-> v, id |-> id]

\* faulty variant: the length check off by one
TooShortRelayId_31(relay_id) == Len(relay_id) < 31

\* the guard of `None?` at lines 127-129
TooShortRelayId(relay_id) == Len(relay_id) < 32

\* id.insert(8, '-'); id.insert(13, '-'); id.insert(18, '-'); id.insert(23, '-')
InsertHyphens(id) ==
    LET r1 == Insert(id, 8, "-", 132)
        r2 == IF r1.ok THEN Insert(r1.val, 13, "-", 133) ELSE r1
        r3 == IF r2.ok THEN Insert(r2.val, 18, "-", 134) ELSE r2
    IN  IF r3.ok THEN Insert(r3.val, 23, "-", 135) ELSE r3

\* `match node_type { "1" => .., "2" => .., _ => None }`: the 1-based index
\* of the first arm whose literal equals node_type, 0 for the `_` arm
MatchNodeType(vs, node_type) ==
    LET hits == {i \in 1 .. Len(vs) : VariantNodeType(i - 1) = node_type}
    IN  IF hits = {} THEN 0
        ELSE CHOOSE i \in hits : \A j \in hits : i <= j

NoLocals == [id |-> <<>>, node_type |-> <<>>]

\* get up to its only suspension point: "none" (returns None), "panic"
\* (with the source line), or "call" (the loader of variant vs[arm] is
\* invoked with id)
GetStart(vs, relay_id) ==
    IF TooShortRelayId(relay_id)
    THEN [status |-> "none", line |-> 128, locals |-> NoLocals, arm |-> 0]
    ELSE LET sp == SplitAt(relay_id, 32, 130)
         IN  IF ~sp.ok
             THEN [status |-> "panic", line |-> sp.line, locals |-> NoLocals,
                   arm |-> 0]
             ELSE LET r == InsertHyphens(sp.head)
                      arm == MatchNodeType(vs, sp.tail)
                  IN  IF ~r.ok
                      THEN [status |-> "panic", line |-> r.line,
                            locals |-> [id |-> sp.head, node_type |-> sp.tail],
                            arm |-> 0]
                      ELSE [status |-> IF arm = 0 THEN "none" ELSE "call",
                            line |-> IF arm = 0 THEN 141 ELSE 139,
                            locals |-> [id |-> r.val, node_type |-> sp.tail],
                            arm |-> arm]

----------------------------------------------------------------------------
(* Inputs *)

\* the sequences over chars of length 0 .. n
Texts(chars, n) == UNION {[1 .. k -> chars] : k \in 0 .. n}

\* s with the two bytes at offsets p, p + 1 replaced by a two-byte character
WithChar(s, p) == [i \in 1 .. Len(s) |->
                      IF i = p + 1 THEN Lead ELSE IF i = p + 2 THEN Cont ELSE s[i]]

Hyphen == "-"

\* 123e4567-e89b-12d3-a456-426614174000
Base ==
    <<"1", "2", "3", "e", "4", "5", "6", "7", "-", "e", "8", "9", "b", "-",
      "1", "2", "d", "3", "-", "a", "4", "5", "6", "-", "4", "2", "6", "6",
      "1", "4", "1", "7", "4", "0", "0", "0">>

\* well-formed canonical UUIDs: Base and Base with one hex digit changed
UUIDs ==
    {Base} \cup {[Base EXCEPT ![p] = c] : p \in {8, 36}, c \in {"1", "f"}}

NoHyphens(s) == SelectSeq(s, LAMBDA c : c # Hyphen)

\* what ID.0 may hold: any String
ShortIds == {SubSeq(Base, 1, k) : k \in 0 .. 35}
LongIds ==
    {u \o x : u \in {Base, [Base EXCEPT ![36] = "1"]},
              x \in Texts({"1", "a"}, MaxExtra) \ {<<>>}}
MalformedIds ==
    {[i \in 1 .. 36 |-> IF Base[i] = Hyphen THEN "0" ELSE Base[i]],
     [Base EXCEPT ![9] = "e", ![10] = Hyphen]}
MultiByteIds == {WithChar(Base, p) : p \in 0 .. 34}

LocalIds == UUIDs \cup ShortIds \cup LongIds \cup MalformedIds \cup MultiByteIds

\* the ID values a resolver can hold under the enum vs
IDs(vs) == {[uuid |-> u, node |-> n] : u \in LocalIds, n \in SchemaNodeTypes(vs)}

\* what a client may send as relay_id: any String
IssuedRelayIds(vs) ==
    LET rs == {From(vs, [uuid |-> u, node |-> n]) :
                  u \in UUIDs \cup LongIds, n \in SchemaNodeTypes(vs)}
    IN  {r.val : r \in {x \in rs : x.status = "ok"}}
CraftedRelayIds ==
    {NoHyphens(u) \o r : u \in {Base, [Base EXCEPT ![36] = "1"]},
                          r \in Texts({"0", "1", "2", "a"}, MaxRem)}
ShortRelayIds == {SubSeq(NoHyphens(Base), 1, k) : k \in 0 .. 31}
MultiByteRelayIds ==
    UNION {{WithChar(NoHyphens(Base) \o r, p) : p \in 0 .. (30 + Len(r))} :
              r \in {<<>>, <<"1">>, <<"1", "0">>}}
    \cup {WithChar(SubSeq(NoHyphens(Base), 1, k), p) : k \in 30 .. 31, p \in {7, 28}}

RelayIds(vs) ==
    IssuedRelayIds(vs) \cup CraftedRelayIds \cup ShortRelayIds \cup MultiByteRelayIds

\* what the loader of variant v, called with id, may return
LoaderReturns(v, id) == {NoneNode, SomeNode(v, id), SomeNode(v, <<>>)}

\* the enums of the first build: 1, 2, .., n in order, and two enums whose
\* identifiers are declared in another order
InitVariants ==
    {[i \in 1 .. n |-> i] : n \in 1 .. MaxTypes} \cup {<<2, 1>>, <<3, 1, 2>>}

----------------------------------------------------------------------------
(* Behaviour *)

NoRet == [status |-> "none", line |-> 0, val |-> <<>>]

Init ==
    /\ variants \in InitVariants
    /\ phase = "idle"
    /\ last = "none"
    /\ arg = <<>>
    /\ locals = NoLocals
    /\ calls = <<>>
    /\ ret = NoRet

\* faulty variant: the new variant collected first
Extend_front(vs, v) == <<v>> \o vs

\* the list `variants` of a build whose enum has v declared after vs
Extend(vs, v) == Append(vs, v)

\* a new build of the schema with one more variant declared at the end
AppendType ==
    /\ phase = "idle"
    /\ Len(variants) < MaxTypes
    /\ LET unused == Idents \ {variants[i] : i \in 1 .. Len(variants)}
           v == CHOOSE x \in unused : \A y \in unused : x <= y
       IN  variants' = Extend(variants, v)
    /\ last' = "build"
    /\ UNCHANGED <<phase, arg, locals, calls, ret>>

\* String::from(&id), as called by to_value
FromCall ==
    /\ phase = "idle"
    /\ \E id \in IDs(variants) :
        /\ arg' = id
        /\ ret' = From(variants, id)
    /\ phase' = "done"
    /\ last' = "from"
    /\ UNCHANGED <<variants, locals, calls>>

\* Node::get(ctx, relay_id) up to its return or to the loader's await
GetCall ==
    /\ phase = "idle"
    /\ \E relay_id \in RelayIds(variants) :
        LET g == GetStart(variants, relay_id)
        IN  /\ arg' = relay_id
            /\ locals' = g.locals
            /\ IF g.status = "call"
               THEN /\ phase' = "awaiting"
                    /\ calls' = <<[variant |-> variants[g.arm],
                                   id |-> g.locals.id]>>
                    /\ ret' = NoRet
               ELSE /\ phase' = "done"
                    /\ calls' = <<>>
                    /\ ret' = [status |-> IF g.status = "panic" THEN "panic" ELSE "ok",
                               line |-> g.line, val |-> NoneNode]
    /\ last' = "get"
    /\ UNCHANGED variants

\* the awaited loader completes and get returns what it returned
LoaderReturn ==
    /\ phase = "awaiting"
    /\ \E r \in LoaderReturns(calls[1].variant, calls[1].id) :
        /\ calls' = <<[variant |-> calls[1].variant, id |-> calls[1].id,
                       returned |-> r]>>
        /\ ret' = [status |-> "ok", line |-> 139, val |-> r]
    /\ phase' = "done"
    /\ UNCHANGED <<variants, last, arg, locals>>

\* the caller takes the result (or unwinds) and the next call can start
Return ==
    /\ phase = "done"
    /\ phase' = "idle"
    /\ last' = "none"
    /\ arg' = <<>>
    /\ locals' = NoLocals
    /\ calls' = <<>>
    /\ ret' = NoRet
    /\ UNCHANGED variants

Next ==
    \/ AppendType
    \/ FromCall
    \/ GetCall
    \/ LoaderReturn
    \/ Return

Spec == Init /\ [][Next]_vars

----------------------------------------------------------------------------
(* Vocabulary of the properties *)

\* a canonical UUID: 36 ASCII bytes, hyphens exactly at offsets 8, 13, 18, 23
WellFormed(u) ==
    /\ Len(u) = 36
    /\ \A i \in 1 .. 36 :
        /\ u[i] \notin {Lead, Cont}
        /\ (u[i] = Hyphen) <=> (i \in {9, 14, 19, 24})

IsDigit(c) == \E d \in 1 .. 10 : Digits[d] = c
DigitValue(c) == (CHOOSE d \in 1 .. 10 : Digits[d] = c) - 1

RECURSIVE DecimalValue(_)
DecimalValue(s) ==
    IF s = <<>> THEN 0
    ELSE 10 * DecimalValue(SubSeq(s, 1, Len(s) - 1)) + DigitValue(s[Len(s)])

\* s is the decimal numeral of n, without padding or leading zeros
IsDecimalOf(s, n) ==
    /\ Len(s) >= 1
    /\ \A i \in 1 .. Len(s) : IsDigit(s[i])
    /\ Len(s) > 1 => s[1] # "0"
    /\ DecimalValue(s) = n

\* the bytes of s after its first 32
After32(s) == SubSeq(s, 33, Len(s))

Registered == {variants[i] : i \in 1 .. Len(variants)}

\* the (U, variant) pairs whose encoding under the current enum is relay_id
IssuedAs(relay_id) ==
    {id \in {[uuid |-> u, node |-> n] : u \in UUIDs, n \in Registered} :
        From(variants, id) = [status |-> "ok", line |-> 0, val |-> relay_id]}

InGet == last = "get" /\ phase \in {"awaiting", "done"}
GetDone == last = "get" /\ phase = "done"
FromDone == last = "from" /\ phase = "done"
ReturnedNone == ret = [status |-> "ok", line |-> ret.line, val |-> NoneNode]

----------------------------------------------------------------------------
(* Properties *)

\* C1: round trip of the codec. Whenever get runs on the encoding of a
\* well-formed UUID U under a registered variant, the id it rebuilds by
\* splitting at byte 32 and re-inserting the hyphens is U, and the remainder
\* is the decimal numeral of the variant's tag.
C1_RoundTrip ==
    InGet =>
        \A id \in IssuedAs(arg) :
            /\ locals.id = id.uuid
            /\ IsDecimalOf(locals.node_type, Position(variants, id.node))

C1_Witness ==
    /\ InGet
    /\ IssuedAs(arg) # {}
    /\ Len(locals.node_type) = 2
    /\ WellFormed(locals.id)

\* C2: refetch routing. The encoding of a well-formed UUID U under the
\* variant at 0-based position i carries tag i + 1, and get on it invokes
\* the loader of that variant, once, with U, and returns what it returned.
C2_RefetchRouting ==
    /\ (FromDone /\ WellFormed(arg.uuid) /\ arg.node \in Registered) =>
            /\ ret.status = "ok"
            /\ LET i == Position(variants, arg.node) - 1
               IN  IsDecimalOf(After32(ret.val), i + 1)
    /\ InGet =>
        \A id \in IssuedAs(arg) :
            /\ Len(calls) = 1
            /\ calls[1].variant = id.node
            /\ calls[1].id = id.uuid
            /\ phase = "done" =>
                    ret = [status |-> "ok", line |-> 139, val |-> calls[1].returned]

C2_Witness ==
    /\ GetDone
    /\ IssuedAs(arg) # {}
    /\ Len(variants) >= 10
    /\ Len(calls) = 1
    /\ calls[1].variant = variants[Len(variants)]
    /\ ret.val.some

\* C3: dispatcher composition. get returns None whenever the input is
\* shorter than 32, or the remainder after byte 32 equals no arm's literal,
\* or the loader returned None; it returns Some only when none of these is
\* the case, and then it returns the value of the matched variant's loader.
C3_Composition ==
    GetDone =>
        /\ Len(arg) < 32 => ReturnedNone
        /\ (Len(arg) >= 32 /\ MatchNodeType(variants, After32(arg)) = 0) => ReturnedNone
        /\ (Len(calls) = 1 /\ ~calls[1].returned.some) => ReturnedNone
        /\ (ret.status = "ok" /\ ret.val.some) =>
                /\ Len(arg) >= 32
                /\ MatchNodeType(variants, After32(arg)) # 0
                /\ Len(calls) = 1
                /\ calls[1].variant = variants[MatchNodeType(variants, After32(arg))]
                /\ calls[1].returned = ret.val

\* C4: unknown-tag rejection. On every input of length >= 32 whose remainder
\* after the first 32 is not the decimal numeral of a tag 1 .. n, get
\* returns None and invokes no loader.
C4_UnknownTagRejected ==
    (InGet /\ Len(arg) >= 32
           /\ ~\E t \in 1 .. Len(variants) : IsDecimalOf(After32(arg), t)) =>
        /\ phase = "done"
        /\ ReturnedNone
        /\ calls = <<>>

\* C5: short-input rejection. On every input shorter than 32 bytes get
\* returns None, does not panic and invokes no loader.
C5_ShortRejected ==
    (InGet /\ Len(arg) < 32) =>
        /\ phase = "done"
        /\ ReturnedNone
        /\ calls = <<>>

C5_Witness ==
    /\ GetDone
    /\ Len(arg) = 31
    /\ ReturnedNone

\* C6: encode precondition. The encoder panics at its length check, and
\* builds no string, for every local id shorter than 36, whatever the
\* variant; it does not panic at that check for any id of length >= 36.
\* Lengths are String::len, that is byte lengths.
C6_EncodePrecondition ==
    FromDone =>
        /\ Len(arg.uuid) < 36 => ret = [status |-> "panic", line |-> 36, val |-> <<>>]
        /\ Len(arg.uuid) >= 36 => ~(ret.status = "panic" /\ ret.line = 36)

C6_Witness ==
    /\ FromDone
    /\ Len(arg.uuid) = 35
    /\ arg.node \in Registered
    /\ ret.status = "panic"

\* C7: layout. Whatever local id the encoder accepts, its result is 32
\* bytes followed by exactly the decimal numeral of the tag.
C7_Layout ==
    (FromDone /\ ret.status = "ok") =>
        IsDecimalOf(After32(ret.val), Discriminant(variants, arg.node))

\* C8: uniqueness across types. No local id the encoder accepts, under
\* another registered variant, encodes to the string just built.
C8_UniqueAcrossTypes ==
    (FromDone /\ ret.status = "ok" /\ arg.node \in Registered) =>
        \A id2 \in IDs(variants) :
            (id2.node \in Registered /\ id2.node # arg.node) =>
                From(variants, id2) # ret

\* C9: append-only stability. When a variant is appended to the enum, every
\* registered variant keeps its tag, every encoding of a well-formed UUID
\* under it is the same string, and get under the new enum routes it to the
\* same variant's loader with the same local id.
C9_AppendStable ==
    [][(variants' # variants) =>
        \A i \in 1 .. Len(variants) : \A u \in UUIDs :
            LET id == [uuid |-> u, node |-> variants[i]]
                old == From(variants, id)
                was == GetStart(variants, old.val)
                now == GetStart(variants', old.val)
            IN  /\ Discriminant(variants', variants[i]) = Discriminant(variants, variants[i])
                /\ old.status = "ok"
                /\ From(variants', id) = old
                /\ was.status = "call"
                /\ now.status = "call"
                /\ variants'[now.arm] = variants[i]
                /\ variants[was.arm] = variants[i]
                /\ now.locals.id = u
                /\ was.locals.id = u]_vars

C9_Witness ==
    /\ last = "build"
    /\ Len(variants) >= 10
    /\ \E i \in 1 .. Len(variants) : variants[i] # i

\* C10: get never panics: it returns None, or invokes one loader and
\* returns what that loader returned.
C10_GetTotal ==
    GetDone =>
        /\ ret.status = "ok"
        /\ \/ ret.val = NoneNode /\ calls = <<>>
           \/ Len(calls) = 1 /\ ret.val = calls[1].returned

====
